---- MODULE Spec2Model ----
(***************************************************************************)
(* Private Set-Membership Test (src/private_set_membership.py).            *)
(*                                                                         *)
(* A Client holds a query c, a Server holds a dataset S.  The Server       *)
(* encodes S as the monic polynomial with roots S, evaluates it            *)
(* homomorphically on the Client's encrypted powers of c, blinds the       *)
(* result with a random factor, and the Client decrypts and tests for 0.   *)
(*                                                                         *)
(* The Paillier scheme (package phe) is the external collaborator.  A      *)
(* ciphertext is modelled by the key it was made under and the plaintext   *)
(* it carries; Encrypt, Add, ScalarMul and Decrypt act on that pair as the *)
(* library does on the real ciphertext.  Plaintexts are exact integers.    *)
(***************************************************************************)
EXTENDS Integers, Sequences, FiniteSets, TLC

\* ------------------------------------------------------------------------
\* Bounds of the model
\* ------------------------------------------------------------------------

\* longest dataset list handed to Server() under Spec
MaxLen == 3
\* dataset values range over -MaxAbs..MaxAbs, queries one step further
MaxAbs == 1
\* stands for max_blinding_factor (1000 by default) in run_protocol
MaxBlindingFactor == 2
\* ConcSpec: number of protocol runs sharing one Server object
ConcRuns == 2
\* ConcSpec: longest dataset list, and values and queries 0..ConcMaxVal
ConcMaxLen == 2
ConcMaxVal == 1
\* ApiSpec: longest dataset list
ApiMaxLen == 2
\* ApiSpec: most calls of generate_keys on the one Client
MaxKeyGens == 2

Values == (0 - MaxAbs)..MaxAbs

Queries == (0 - MaxAbs - 1)..(MaxAbs + 1)

Lists(maxlen, vals) == UNION {[1..k -> vals] : k \in 0..maxlen}

\* the lists among them that are strictly ascending: one list per set
AscendingLists(maxlen, vals) ==
    {l \in Lists(maxlen, vals) : \A i \in 1..(Len(l) - 1) : l[i] < l[i + 1]}

\* ------------------------------------------------------------------------
\* The homomorphic scheme (phe.paillier), by its contract
\* ------------------------------------------------------------------------

\* Client.__init__: both key fields are None
NoKey == [kind |-> "none", id |-> <<0, 0>>]

PublicKeyOf(id) == [kind |-> "pub", id |-> id]

PrivateKeyOf(id) == [kind |-> "priv", id |-> id]

\* a ciphertext: the id of the key pair it belongs to and its plaintext
NoCipher == [pk |-> <<0, 0>>, pt |-> 0]

\* public_key.encrypt(m)
Encrypt(public_key, m) == [pk |-> public_key.id, pt |-> m]

\* EncryptedNumber * scalar
ScalarMul(ct, k) == [pk |-> ct.pk, pt |-> ct.pt * k]

\* EncryptedNumber + EncryptedNumber (phe refuses operands of different keys)
SameKey(c1, c2) == c1.pk = c2.pk

Add(c1, c2) == [pk |-> c1.pk, pt |-> c1.pt + c2.pt]

\* private_key.decrypt(ct) (phe refuses a ciphertext of another key)
CanDecrypt(private_key, ct) == private_key.kind = "priv" /\ private_key.id = ct.pk

\* ------------------------------------------------------------------------
\* Results of calls: err is "ok" or the kind of failure; val holds the
\* returned value, or is empty when the call raised.
\* ------------------------------------------------------------------------

Ok(v) == [err |-> "ok", val |-> <<v>>]

Raise(e) == [err |-> e, val |-> <<>>]

\* ------------------------------------------------------------------------
\* Server: polynomial encoding
\* ------------------------------------------------------------------------

Elems(list) == {list[i] : i \in 1..Len(list)}

HasDuplicates(list) == Len(list) > Cardinality(Elems(list))

\* a slip: the list kept as passed, repeated entries included
DedupKeepsAll(list) == {list}

\* list(set(dataset)): the distinct elements, in an order the set's
\* iteration decides; every order is a possible outcome
Dedup(list) ==
    LET S == Elems(list)
    IN  {f \in [1..Cardinality(S) -> S] : \A i, j \in 1..Cardinality(S) : f[i] = f[j] => i = j}

\* a slip: the empty product taken to be 0
EmptyPolynomialZero == <<0>>

\* the empty polynomial PS(x) = 1
EmptyPolynomial == <<1>>

\* a slip: the first factor written constant term first
FirstFactorSwapped(s1) == <<0 - s1, 1>>

\* coefficients of (x - s1)
FirstFactor(s1) == <<1, 0 - s1>>

\* a slip: the factor (x + s_i) instead of (x - s_i)
MulByRootPlus(coeffs, s_i) ==
    [j \in 1..(Len(coeffs) + 1) |->
        (IF j <= Len(coeffs) THEN coeffs[j] ELSE 0)
      + (IF j >= 2 THEN coeffs[j - 1] * s_i ELSE 0)]

\* a slip: `=` for `+=`, the scaled term overwriting the shifted one
MulByRootOverwrite(coeffs, s_i) ==
    [j \in 1..(Len(coeffs) + 1) |->
        IF j >= 2 THEN coeffs[j - 1] * (0 - s_i) ELSE coeffs[j]]

\* one pass of the loop body: the current polynomial times (x - s_i)
MulByRoot(coeffs, s_i) ==
    [j \in 1..(Len(coeffs) + 1) |->
        (IF j <= Len(coeffs) THEN coeffs[j] ELSE 0)
      + (IF j >= 2 THEN coeffs[j - 1] * (0 - s_i) ELSE 0)]

RECURSIVE CoeffsLoop(_, _, _)
CoeffsLoop(coeffs, ds, i) ==
    IF i > Len(ds) THEN coeffs ELSE CoeffsLoop(MulByRoot(coeffs, ds[i]), ds, i + 1)

\* Server._compute_polynomial_coefficients as one function of self.dataset
ComputePolynomialCoefficients(ds) ==
    IF Len(ds) = 0 THEN EmptyPolynomial ELSE CoeffsLoop(FirstFactor(ds[1]), ds, 2)

\* ------------------------------------------------------------------------
\* Client operations
\* ------------------------------------------------------------------------

\* a slip: the power encrypted before it is multiplied, so c^0 .. c^(n-1)
RECURSIVE PowersLoopLate(_, _, _, _, _)
PowersLoopLate(public_key, c, n, k, current_power) ==
    IF k > n THEN <<>>
    ELSE <<Encrypt(public_key, current_power)>>
         \o PowersLoopLate(public_key, c, n, k + 1, current_power * c)

RECURSIVE PowersLoop(_, _, _, _, _)
PowersLoop(public_key, c, n, k, current_power) ==
    IF k > n THEN <<>>
    ELSE <<Encrypt(public_key, current_power * c)>>
         \o PowersLoop(public_key, c, n, k + 1, current_power * c)

\* a slip: the key check made only once the loop has something to encrypt
EncryptQueryLateCheck(cl, c, n) ==
    IF n > 0 /\ cl.public_key = NoKey THEN Raise("KeysNotInitialized")
    ELSE Ok(PowersLoop(cl.public_key, c, n, 1, 1))

\* Client.encrypt_query(c, n) on a client with fields cl
EncryptQuery(cl, c, n) ==
    IF cl.public_key = NoKey THEN Raise("KeysNotInitialized")
    ELSE Ok(PowersLoop(cl.public_key, c, n, 1, 1))

\* Client.decrypt_result(encrypted_result)
DecryptResult(cl, encrypted_result) ==
    IF cl.private_key = NoKey THEN Raise("KeysNotInitialized")
    ELSE IF ~CanDecrypt(cl.private_key, encrypted_result) THEN Raise("SchemeError")
    ELSE Ok(encrypted_result.pt)

\* Client.check_membership(decrypted_result)
CheckMembership(decrypted_result) == decrypted_result = 0

\* ------------------------------------------------------------------------
\* Server operations
\* ------------------------------------------------------------------------

\* a slip: the coefficient list read from the wrong end
CoeffIndexReversed(deg, k) == k

\* index (1-based) of a_k in [a_n, ..., a_1, a_0]
CoeffIndex(deg, k) == deg - k + 1

\* a slip: the loop left at the first zero coefficient instead of going on
\* to the next term
RECURSIVE EvalLoopStopsAtZero(_, _, _, _, _)
EvalLoopStopsAtZero(coeffs, deg, encrypted_powers, k, acc) ==
    IF k > deg \/ acc.bad THEN acc
    ELSE LET a_k == coeffs[CoeffIndex(deg, k)]
         IN  IF a_k = 0
             THEN acc
             ELSE LET encrypted_term == ScalarMul(encrypted_powers[k], a_k)
                  IN  IF SameKey(acc.ct, encrypted_term)
                      THEN EvalLoopStopsAtZero(coeffs, deg, encrypted_powers, k + 1,
                                    [ct |-> Add(acc.ct, encrypted_term),
                                     ops |-> acc.ops + 2, bad |-> FALSE])
                      ELSE [ct |-> acc.ct, ops |-> acc.ops + 2, bad |-> TRUE]

\* the loop of evaluate_polynomial_homomorphic: acc is [ct, ops, bad], the
\* running ciphertext, the number of scheme operations done so far and
\* whether the scheme refused one
RECURSIVE EvalLoop(_, _, _, _, _)
EvalLoop(coeffs, deg, encrypted_powers, k, acc) ==
    IF k > deg \/ acc.bad THEN acc
    ELSE LET a_k == coeffs[CoeffIndex(deg, k)]
         IN  IF a_k = 0
             THEN EvalLoop(coeffs, deg, encrypted_powers, k + 1, acc)
             ELSE LET encrypted_term == ScalarMul(encrypted_powers[k], a_k)
                  IN  IF SameKey(acc.ct, encrypted_term)
                      THEN EvalLoop(coeffs, deg, encrypted_powers, k + 1,
                                    [ct |-> Add(acc.ct, encrypted_term),
                                     ops |-> acc.ops + 2, bad |-> FALSE])
                      ELSE [ct |-> acc.ct, ops |-> acc.ops + 2, bad |-> TRUE]

\* a slip: only a too short sequence refused, a longer one silently cut
EvaluateTruncating(coeffs, deg, public_key, encrypted_powers) ==
    IF Len(encrypted_powers) < deg
    THEN [err |-> "DegreeMismatch", val |-> <<>>, ops |-> 0]
    ELSE LET start == [ct |-> Encrypt(public_key, coeffs[Len(coeffs)]),
                       ops |-> 1, bad |-> FALSE]
             fin == EvalLoop(coeffs, deg, SubSeq(encrypted_powers, 1, deg), 1, start)
         IN  IF fin.bad
             THEN [err |-> "SchemeError", val |-> <<>>, ops |-> fin.ops]
             ELSE [err |-> "ok", val |-> <<fin.ct>>, ops |-> fin.ops]

\* Server.evaluate_polynomial_homomorphic(public_key, encrypted_powers) on a
\* server with degree deg and coefficients coeffs; ops counts the scheme
\* operations the call performed
EvaluatePolynomialHomomorphic(coeffs, deg, public_key, encrypted_powers) ==
    IF Len(encrypted_powers) # deg
    THEN [err |-> "DegreeMismatch", val |-> <<>>, ops |-> 0]
    ELSE LET start == [ct |-> Encrypt(public_key, coeffs[Len(coeffs)]),
                       ops |-> 1, bad |-> FALSE]
             fin == EvalLoop(coeffs, deg, encrypted_powers, 1, start)
         IN  IF fin.bad
             THEN [err |-> "SchemeError", val |-> <<>>, ops |-> fin.ops]
             ELSE [err |-> "ok", val |-> <<fin.ct>>, ops |-> fin.ops]

\* a slip: the draw started at 0
BlindingFactorsFromZero(max_blinding_factor) == 0..max_blinding_factor

\* random.randint(1, max_blinding_factor): the values it can return
BlindingFactors(max_blinding_factor) == 1..max_blinding_factor

\* a slip: additive instead of multiplicative blinding
BlindWithAdd(encrypted_result, r) ==
    [pk |-> encrypted_result.pk, pt |-> encrypted_result.pt + r]

\* a slip: the drawn factor never applied
BlindWithoutFactor(encrypted_result, r) == encrypted_result

\* encrypted_result * r
BlindWith(encrypted_result, r) == ScalarMul(encrypted_result, r)

\* Server.blind_and_return(encrypted_result, max_blinding_factor): every
\* outcome the draw allows; randint raises on an empty range
BlindAndReturn(encrypted_result, max_blinding_factor) ==
    IF BlindingFactors(max_blinding_factor) = {}
    THEN {[err |-> "EmptyRange", val |-> <<>>, r |-> 0]}
    ELSE {[err |-> "ok", val |-> <<BlindWith(encrypted_result, r)>>, r |-> r] :
            r \in BlindingFactors(max_blinding_factor)}

\* ------------------------------------------------------------------------
\* State
\* ------------------------------------------------------------------------

VARIABLES
    server_dataset,  \* the list handed to Server() / run_protocol
    spc,             \* where the Server's construction stands
    dataset,         \* Server.dataset
    n,               \* Server.n
    coefficients,    \* Server.coefficients
    coeffs,          \* local coeffs of _compute_polynomial_coefficients
    idx,             \* how many roots that loop has multiplied in
    client,          \* per Client object: public_key, private_key, keygens
    run,             \* per protocol run: position and locals of run_protocol
    server_keys,     \* every key a Server operation was handed
    api              \* ApiSpec: the last direct call and its outcome

vars == <<server_dataset, spc, dataset, n, coefficients, coeffs, idx,
          client, run, server_keys, api>>

server_vars == <<server_dataset, spc, dataset, n, coefficients, coeffs, idx>>

\* Client.__init__ (keygens counts the calls of generate_keys)
NewClient == [public_key |-> NoKey, private_key |-> NoKey, keygens |-> 0]

\* run_protocol just after `client = Client()`, before Server() returns
NewRun(client_query) ==
    [pc |-> "start", client_query |-> client_query, public_key |-> NoKey,
     encrypted_powers |-> <<>>, encrypted_polynomial_value |-> NoCipher,
     blinded_result |-> NoCipher, decrypted_result |-> 0, is_member |-> FALSE,
     r |-> 0, err |-> "ok", result |-> <<>>]

NoCall == [op |-> "none", args |-> <<>>, err |-> "ok", val |-> <<>>, ops |-> 0, r |-> 0]

Runs == DOMAIN run

\* ------------------------------------------------------------------------
\* Server construction (Server.__init__)
\* ------------------------------------------------------------------------

\* lines 109-110, and the entry of _compute_polynomial_coefficients up to
\* the loop: the n = 0 return value or the first factor
ServerInit ==
    /\ spc = "new"
    /\ \E ds \in Dedup(server_dataset) :
          /\ dataset' = ds
          /\ n' = Len(ds)
          /\ coeffs' = IF Len(ds) = 0 THEN EmptyPolynomial ELSE FirstFactor(ds[1])
          /\ idx' = IF Len(ds) = 0 THEN 0 ELSE 1
    /\ spc' = "computing"
    /\ UNCHANGED <<server_dataset, coefficients, client, run, server_keys, api>>

\* one iteration of `for s_i in self.dataset[1:]`
CoeffsStep ==
    /\ spc = "computing"
    /\ idx < n
    /\ coeffs' = MulByRoot(coeffs, dataset[idx + 1])
    /\ idx' = idx + 1
    /\ UNCHANGED <<server_dataset, spc, dataset, n, coefficients, client, run,
                   server_keys, api>>

\* `return coeffs` and the assignment to self.coefficients
CoeffsReturn ==
    /\ spc = "computing"
    /\ idx = n
    /\ coefficients' = coeffs
    /\ spc' = "ready"
    /\ UNCHANGED <<server_dataset, dataset, n, coeffs, idx, client, run,
                   server_keys, api>>

\* ------------------------------------------------------------------------
\* run_protocol, one action per step
\* ------------------------------------------------------------------------

\* a slip: the private key handed back instead of the public key
GenerateKeysLeaks(cl, owner) ==
    LET id == <<owner, cl.keygens + 1>>
    IN  [self |-> [public_key |-> PublicKeyOf(id), private_key |-> PrivateKeyOf(id),
                   keygens |-> cl.keygens + 1],
         ret |-> PrivateKeyOf(id)]

\* Client.generate_keys: the new fields of the Client and the value returned
GenerateKeys(cl, owner) ==
    LET id == <<owner, cl.keygens + 1>>
    IN  [self |-> [public_key |-> PublicKeyOf(id), private_key |-> PrivateKeyOf(id),
                   keygens |-> cl.keygens + 1],
         ret |-> PublicKeyOf(id)]

Fail(rn, e) == [rn EXCEPT !.pc = "failed", !.err = e]

\* Step 1: public_key = client.generate_keys(key_length)
StepGenerateKeys(r) ==
    /\ run[r].pc = "start"
    /\ spc = "ready"
    /\ LET g == GenerateKeys(client[r], r)
       IN  /\ client' = [client EXCEPT ![r] = g.self]
           /\ run' = [run EXCEPT ![r].pc = "keys_generated", ![r].public_key = g.ret]
    /\ UNCHANGED <<server_vars, server_keys, api>>

\* a slip: the powers counted by the list as passed, not by server.n
StepEncryptQueryInputLen(r) ==
    /\ run[r].pc = "keys_generated"
    /\ LET res == EncryptQuery(client[r], run[r].client_query, Len(server_dataset))
       IN  run' = [run EXCEPT ![r] =
                     IF res.err = "ok"
                     THEN [@ EXCEPT !.pc = "query_encrypted",
                                    !.encrypted_powers = res.val[1]]
                     ELSE Fail(@, res.err)]
    /\ UNCHANGED <<server_vars, client, server_keys, api>>

\* Step 2: encrypted_powers = client.encrypt_query(client_query, server.n)
StepEncryptQuery(r) ==
    /\ run[r].pc = "keys_generated"
    /\ LET res == EncryptQuery(client[r], run[r].client_query, n)
       IN  run' = [run EXCEPT ![r] =
                     IF res.err = "ok"
                     THEN [@ EXCEPT !.pc = "query_encrypted",
                                    !.encrypted_powers = res.val[1]]
                     ELSE Fail(@, res.err)]
    /\ UNCHANGED <<server_vars, client, server_keys, api>>

Reverse(seq) == [i \in 1..Len(seq) |-> seq[Len(seq) + 1 - i]]

\* a slip: the call reverses self.coefficients in place to walk them from
\* a_0 upwards and leaves them reversed
StepEvaluateReversing(r) ==
    /\ run[r].pc = "query_encrypted"
    /\ LET res == EvaluatePolynomialHomomorphic(coefficients, n, run[r].public_key,
                                                run[r].encrypted_powers)
       IN  run' = [run EXCEPT ![r] =
                     IF res.err = "ok"
                     THEN [@ EXCEPT !.pc = "evaluated",
                                    !.encrypted_polynomial_value = res.val[1]]
                     ELSE Fail(@, res.err)]
    /\ coefficients' = Reverse(coefficients)
    /\ server_keys' = server_keys \cup {run[r].public_key}
    /\ UNCHANGED <<server_dataset, spc, dataset, n, coeffs, idx, client, api>>

\* Step 3: server.evaluate_polynomial_homomorphic(public_key, encrypted_powers)
StepEvaluate(r) ==
    /\ run[r].pc = "query_encrypted"
    /\ LET res == EvaluatePolynomialHomomorphic(coefficients, n, run[r].public_key,
                                                run[r].encrypted_powers)
       IN  run' = [run EXCEPT ![r] =
                     IF res.err = "ok"
                     THEN [@ EXCEPT !.pc = "evaluated",
                                    !.encrypted_polynomial_value = res.val[1]]
                     ELSE Fail(@, res.err)]
    /\ server_keys' = server_keys \cup {run[r].public_key}
    /\ UNCHANGED <<server_vars, client, api>>

\* a slip: steps 3 and 4 out of order, the blinding called on a value that
\* was never evaluated
StepBlindEarly(r) ==
    /\ run[r].pc = "query_encrypted"
    /\ \E res \in BlindAndReturn(run[r].encrypted_polynomial_value, MaxBlindingFactor) :
          run' = [run EXCEPT ![r] =
                    IF res.err = "ok"
                    THEN [@ EXCEPT !.pc = "blinded", !.blinded_result = res.val[1],
                                   !.r = res.r]
                    ELSE Fail(@, res.err)]
    /\ UNCHANGED <<server_vars, client, server_keys, api>>

\* Step 4: server.blind_and_return(encrypted_polynomial_value)
StepBlind(r) ==
    /\ run[r].pc = "evaluated"
    /\ \E res \in BlindAndReturn(run[r].encrypted_polynomial_value, MaxBlindingFactor) :
          run' = [run EXCEPT ![r] =
                    IF res.err = "ok"
                    THEN [@ EXCEPT !.pc = "blinded", !.blinded_result = res.val[1],
                                   !.r = res.r]
                    ELSE Fail(@, res.err)]
    /\ UNCHANGED <<server_vars, client, server_keys, api>>

\* a slip: the evaluated ciphertext decrypted instead of the blinded one
StepDecryptUnblinded(r) ==
    /\ run[r].pc = "blinded"
    /\ LET res == DecryptResult(client[r], run[r].encrypted_polynomial_value)
       IN  run' = [run EXCEPT ![r] =
                     IF res.err = "ok"
                     THEN [@ EXCEPT !.pc = "decrypted", !.decrypted_result = res.val[1]]
                     ELSE Fail(@, res.err)]
    /\ UNCHANGED <<server_vars, client, server_keys, api>>

\* Step 5a: decrypted_result = client.decrypt_result(blinded_result)
StepDecrypt(r) ==
    /\ run[r].pc = "blinded"
    /\ LET res == DecryptResult(client[r], run[r].blinded_result)
       IN  run' = [run EXCEPT ![r] =
                     IF res.err = "ok"
                     THEN [@ EXCEPT !.pc = "decrypted", !.decrypted_result = res.val[1]]
                     ELSE Fail(@, res.err)]
    /\ UNCHANGED <<server_vars, client, server_keys, api>>

\* a slip: the size taken from the Server's stored dataset
ProtocolInfoStoredSize(rn, is_member) ==
    [query |-> rn.client_query,
     dataset_size |-> Len(dataset),
     polynomial_degree |-> n,
     coefficients |-> coefficients,
     decrypted_result |-> rn.decrypted_result,
     is_member |-> is_member,
     actual_membership |-> rn.client_query \in Elems(server_dataset)]

\* the diagnostic record assembled at lines 256-264
ProtocolInfo(rn, is_member) ==
    [query |-> rn.client_query,
     dataset_size |-> Len(server_dataset),
     polynomial_degree |-> n,
     coefficients |-> coefficients,
     decrypted_result |-> rn.decrypted_result,
     is_member |-> is_member,
     actual_membership |-> rn.client_query \in Elems(server_dataset)]

\* Step 5b: is_member = client.check_membership(decrypted_result), then the
\* record is assembled and (is_member, protocol_info) returned
StepCheck(r) ==
    /\ run[r].pc = "decrypted"
    /\ LET is_member == CheckMembership(run[r].decrypted_result)
       IN  run' = [run EXCEPT ![r].pc = "returned",
                              ![r].is_member = is_member,
                              ![r].result = <<[is_member |-> is_member,
                                               protocol_info |-> ProtocolInfo(run[r], is_member)]>>]
    /\ UNCHANGED <<server_vars, client, server_keys, api>>

Next ==
    \/ ServerInit
    \/ CoeffsStep
    \/ CoeffsReturn
    \/ \E r \in Runs : StepGenerateKeys(r)
    \/ \E r \in Runs : StepEncryptQuery(r)
    \/ \E r \in Runs : StepEvaluate(r)
    \/ \E r \in Runs : StepBlind(r)
    \/ \E r \in Runs : StepDecrypt(r)
    \/ \E r \in Runs : StepCheck(r)

ServerStart ==
    /\ spc = "new"
    /\ dataset = <<>>
    /\ n = 0
    /\ coefficients = <<>>
    /\ coeffs = <<>>
    /\ idx = 0
    /\ server_keys = {}
    /\ api = NoCall

\* one call of run_protocol(client_query, server_dataset)
Init ==
    /\ server_dataset \in Lists(MaxLen, Values)
    /\ \E q \in Queries :
          /\ run = [r \in {1} |-> NewRun(q)]
          /\ client = [r \in {1} |-> NewClient]
    /\ ServerStart

Spec == Init /\ [][Next]_vars

\* ------------------------------------------------------------------------
\* ConcSpec: several protocol runs against one Server object
\* ------------------------------------------------------------------------

ConcValues == 0..ConcMaxVal

\* the shared Server is built over an ascending list (repeated entries and
\* the order of the input are the business of Spec; the order of the stored
\* dataset stays free); each run has its own Client and its own query
InitConc ==
    /\ server_dataset \in AscendingLists(ConcMaxLen, ConcValues)
    /\ \E q \in [1..ConcRuns -> ConcValues] :
          /\ run = [r \in 1..ConcRuns |-> NewRun(q[r])]
          /\ client = [r \in 1..ConcRuns |-> NewClient]
    /\ ServerStart

ConcSpec == InitConc /\ [][Next]_vars

\* ------------------------------------------------------------------------
\* ApiSpec: one Client and one Server, their operations called directly, one
\* call at a time, in any order and with any arguments; api records the
\* call being made and its outcome until the caller has taken it
\* ------------------------------------------------------------------------

KeyIds == {<<1, k>> : k \in 1..MaxKeyGens}

ApiPublicKeys == {PublicKeyOf(id) : id \in KeyIds}

ApiCiphers == [pk : KeyIds, pt : Values]

\* power lists of every length up to one more than the longest degree
ApiPowerLists ==
    {PowersLoop(PublicKeyOf(id), c, m, 1, 1) :
        id \in KeyIds, c \in Values, m \in 0..(ApiMaxLen + 1)}

Call(op, args, res, ops, r) ==
    [op |-> op, args |-> args, err |-> res.err, val |-> res.val, ops |-> ops, r |-> r]

ApiGenerateKeys ==
    /\ spc = "ready"
    /\ api = NoCall
    /\ client[1].keygens < MaxKeyGens
    /\ LET g == GenerateKeys(client[1], 1)
       IN  /\ client' = [client EXCEPT ![1] = g.self]
           /\ api' = Call("generate_keys", <<>>, Ok(g.ret), 0, 0)
    /\ UNCHANGED <<server_vars, run, server_keys>>

ApiEncryptQuery ==
    /\ spc = "ready"
    /\ api = NoCall
    /\ \E c \in Values, m \in 0..ApiMaxLen :
          api' = Call("encrypt_query", <<c, m>>, EncryptQuery(client[1], c, m), 0, 0)
    /\ UNCHANGED <<server_vars, client, run, server_keys>>

\* a slip: the private key dropped once it has decrypted a result
ApiDecryptResultForgets ==
    /\ spc = "ready"
    /\ api = NoCall
    /\ \E ct \in ApiCiphers :
          LET res == DecryptResult(client[1], ct)
          IN  /\ api' = Call("decrypt_result", <<ct>>, res, 0, 0)
              /\ client' = [client EXCEPT ![1].private_key =
                                IF res.err = "ok" THEN NoKey ELSE @]
    /\ UNCHANGED <<server_vars, run, server_keys>>

ApiDecryptResult ==
    /\ spc = "ready"
    /\ api = NoCall
    /\ \E ct \in ApiCiphers :
          api' = Call("decrypt_result", <<ct>>, DecryptResult(client[1], ct), 0, 0)
    /\ UNCHANGED <<server_vars, client, run, server_keys>>

ApiCheckMembership ==
    /\ spc = "ready"
    /\ api = NoCall
    /\ \E v \in Values :
          api' = Call("check_membership", <<v>>, Ok(CheckMembership(v)), 0, 0)
    /\ UNCHANGED <<server_vars, client, run, server_keys>>

ApiEvaluate ==
    /\ spc = "ready"
    /\ api = NoCall
    /\ \E public_key \in ApiPublicKeys, encrypted_powers \in ApiPowerLists :
          /\ LET res == EvaluatePolynomialHomomorphic(coefficients, n, public_key,
                                                      encrypted_powers)
             IN  api' = Call("evaluate_polynomial_homomorphic",
                             <<public_key, encrypted_powers>>, res, res.ops, 0)
          /\ server_keys' = server_keys \cup {public_key}
    /\ UNCHANGED <<server_vars, client, run>>

ApiBlind ==
    /\ spc = "ready"
    /\ api = NoCall
    /\ \E ct \in ApiCiphers, max_blinding_factor \in 0..MaxBlindingFactor :
          \E res \in BlindAndReturn(ct, max_blinding_factor) :
              api' = Call("blind_and_return", <<ct, max_blinding_factor>>, res, 1, res.r)
    /\ UNCHANGED <<server_vars, client, run, server_keys>>

\* the caller has taken the value (or caught the exception) of the last
\* call and is free to make the next one
ApiReturn ==
    /\ api # NoCall
    /\ api' = NoCall
    /\ UNCHANGED <<server_vars, client, run, server_keys>>

ApiNext ==
    \/ ServerInit
    \/ CoeffsStep
    \/ CoeffsReturn
    \/ ApiGenerateKeys
    \/ ApiEncryptQuery
    \/ ApiDecryptResult
    \/ ApiCheckMembership
    \/ ApiEvaluate
    \/ ApiBlind
    \/ ApiReturn

InitApi ==
    /\ server_dataset \in AscendingLists(ApiMaxLen, Values)
    /\ client = [c \in {1} |-> NewClient]
    /\ run = [r \in {} |-> NewRun(0)]
    /\ ServerStart

ApiSpec == InitApi /\ [][ApiNext]_vars

\* ------------------------------------------------------------------------
\* Vocabulary of the properties
\* ------------------------------------------------------------------------

RECURSIVE Pow(_, _)
Pow(x, k) == IF k = 0 THEN 1 ELSE x * Pow(x, k - 1)

RECURSIVE SumTerms(_, _, _)
SumTerms(cs, x, k) ==
    IF k < 0 THEN 0 ELSE cs[Len(cs) - k] * Pow(x, k) + SumTerms(cs, x, k - 1)

\* plain integer evaluation of [a_d, ..., a_1, a_0] at x: the sum of a_k * x^k
PlainEval(cs, x) == SumTerms(cs, x, Len(cs) - 1)

\* the list without its repeated entries, first occurrences kept in order
RECURSIVE RemoveDuplicates(_)
RemoveDuplicates(list) ==
    IF list = <<>> THEN <<>>
    ELSE LET front == RemoveDuplicates(SubSeq(list, 1, Len(list) - 1))
             last == list[Len(list)]
         IN  IF last \in Elems(front) THEN front ELSE Append(front, last)

StepOrder == <<"start", "keys_generated", "query_encrypted", "evaluated",
               "blinded", "decrypted", "returned">>

Rank(pc) == CHOOSE i \in 1..Len(StepOrder) : StepOrder[i] = pc

\* the run has completed the step that leaves it at `stage`, and not failed
Past(rn, stage) == rn.pc # "failed" /\ Rank(rn.pc) >= Rank(stage)

InfoFields == {"query", "dataset_size", "polynomial_degree", "coefficients",
               "decrypted_result", "is_member", "actual_membership"}

\* ------------------------------------------------------------------------
\* C1
\* ------------------------------------------------------------------------

\* C1: run_protocol never fails and returns a verdict equal to the ground
\* truth `c in dataset`, with decrypted result 0 exactly for members, for
\* every query, every dataset list and every blinding factor drawn.
C1_VerdictIsGroundTruth ==
    \A r \in Runs :
        /\ run[r].pc # "failed"
        /\ run[r].pc = "returned" =>
              LET truth == run[r].client_query \in Elems(server_dataset)
              IN  /\ run[r].result[1].is_member = truth
                  /\ truth => run[r].decrypted_result = 0
                  /\ ~truth => run[r].decrypted_result # 0

C1_Witness ==
    /\ run[1].pc = "returned"
    /\ HasDuplicates(server_dataset)
    /\ n = 2
    /\ run[1].r = MaxBlindingFactor
    /\ run[1].result[1].is_member

C1_WitnessNonMember ==
    /\ run[1].pc = "returned"
    /\ n = 2
    /\ ~run[1].result[1].is_member
    /\ run[1].decrypted_result < 0

\* ------------------------------------------------------------------------
\* C2
\* ------------------------------------------------------------------------

\* C2: the coefficients the Server computed for S evaluate, in plain integer
\* arithmetic, to 0 at every x in S and to a non-zero integer at every x
\* outside a non-empty S.
C2_RootsAreExactlyDataset ==
    spc = "ready" =>
        \A x \in Queries :
            LET S == Elems(server_dataset)
            IN  /\ x \in S => PlainEval(coefficients, x) = 0
                /\ (x \notin S /\ S # {}) => PlainEval(coefficients, x) # 0

C2_Witness ==
    /\ spc = "ready"
    /\ n = 3
    /\ \E x \in Queries : x \notin Elems(server_dataset)

\* ------------------------------------------------------------------------
\* C3
\* ------------------------------------------------------------------------

\* C3: after construction the coefficient list has length |S| + 1, with
\* |S| = n the number of distinct dataset elements, and leading coefficient
\* 1; during the loop the same holds for the roots processed so far.
C3_DegreeInvariant ==
    /\ spc = "ready" =>
          /\ n = Cardinality(Elems(server_dataset))
          /\ Len(coefficients) = n + 1
          /\ coefficients[1] = 1
    /\ spc = "computing" =>
          /\ Len(coeffs) = idx + 1
          /\ coeffs[1] = 1

C3_Witness ==
    /\ spc = "computing"
    /\ idx = 2
    /\ n = 3

\* ------------------------------------------------------------------------
\* C4
\* ------------------------------------------------------------------------

\* C4: for the empty dataset the coefficients are [1] and n is 0, the Client
\* sends no encrypted powers, the evaluation is accepted and encrypts 1, the
\* decrypted value is non-zero and the verdict is non-member, for every
\* query and every blinding factor.
C4_EmptyDataset ==
    server_dataset = <<>> =>
        /\ spc = "ready" => (coefficients = <<1>> /\ n = 0)
        /\ \A r \in Runs :
              /\ run[r].pc # "failed"
              /\ Past(run[r], "query_encrypted") => run[r].encrypted_powers = <<>>
              /\ Past(run[r], "evaluated") => run[r].encrypted_polynomial_value.pt = 1
              /\ Past(run[r], "decrypted") => run[r].decrypted_result # 0
              /\ Past(run[r], "returned") => ~run[r].result[1].is_member

C4_Witness ==
    /\ server_dataset = <<>>
    /\ run[1].pc = "returned"
    /\ run[1].r = MaxBlindingFactor
    /\ run[1].client_query = 0

\* ------------------------------------------------------------------------
\* C8
\* ------------------------------------------------------------------------

\* C8: n is the number of distinct values of the input list, the stored
\* dataset holds each distinct value exactly once, the coefficients are
\* those of the duplicate-free list, and a query equal to a repeated
\* element is reported as member.
C8_DuplicatesCollapsed ==
    /\ spc # "new" =>
          /\ n = Cardinality(Elems(server_dataset))
          /\ Len(dataset) = n
          /\ Elems(dataset) = Elems(server_dataset)
    /\ spc = "ready" =>
          coefficients = ComputePolynomialCoefficients(RemoveDuplicates(server_dataset))
    /\ \A r \in Runs :
          (/\ run[r].pc = "returned"
           /\ \E i, j \in 1..Len(server_dataset) :
                 i # j /\ server_dataset[i] = run[r].client_query
                       /\ server_dataset[j] = run[r].client_query)
          => run[r].result[1].is_member

C8_Witness ==
    /\ run[1].pc = "returned"
    /\ Len(server_dataset) = 3
    /\ n = 2
    /\ dataset # RemoveDuplicates(server_dataset)
    /\ server_dataset[1] = run[1].client_query
    /\ server_dataset[3] = run[1].client_query

\* ------------------------------------------------------------------------
\* C9
\* ------------------------------------------------------------------------

\* C9: the private key is held only by the Client: generate_keys hands
\* run_protocol the public key, every key handed to a Server operation is
\* that public key, and the returned record has no field for a key.
C9_PrivateKeyStaysWithClient ==
    /\ \A k \in server_keys : k.kind = "pub"
    /\ \A r \in Runs :
          /\ Past(run[r], "keys_generated") =>
                /\ run[r].public_key = client[r].public_key
                /\ run[r].public_key.kind = "pub"
                /\ client[r].private_key.kind = "priv"
          /\ Past(run[r], "evaluated") => run[r].public_key \in server_keys
          /\ run[r].pc = "returned" =>
                /\ DOMAIN run[r].result[1] = {"is_member", "protocol_info"}
                /\ DOMAIN run[r].result[1].protocol_info = InfoFields

C9_Witness ==
    /\ run[1].pc = "returned"
    /\ server_keys = {PublicKeyOf(<<1, 1>>)}
    /\ client[1].private_key = PrivateKeyOf(<<1, 1>>)

\* ------------------------------------------------------------------------
\* C5
\* ------------------------------------------------------------------------

\* C5: blinding a ciphertext that encrypts 0, with any max_blinding_factor
\* >= 1 and any factor drawn, succeeds and returns a ciphertext of the same
\* key that still decrypts to exactly 0, which check_membership reads as
\* member.
C5_BlindingPreservesZero ==
    (/\ api.op = "blind_and_return"
     /\ api.args[1].pt = 0
     /\ api.args[2] >= 1)
    => /\ api.err = "ok"
       /\ api.r \in 1..api.args[2]
       /\ api.val[1].pk = api.args[1].pk
       /\ api.val[1].pt = 0
       /\ CheckMembership(api.val[1].pt)

C5_Witness ==
    /\ api.op = "blind_and_return"
    /\ api.args[1].pt = 0
    /\ api.args[2] = MaxBlindingFactor
    /\ api.r = MaxBlindingFactor
    /\ api.err = "ok"

\* ------------------------------------------------------------------------
\* C6
\* ------------------------------------------------------------------------

\* C6: while generate_keys has not been called, encrypt_query (any c, any
\* n, n = 0 included) and decrypt_result fail with the keys-not-initialized
\* error and return nothing; once it has been called, neither fails with
\* that error.
C6_KeysNotInitialized ==
    api.op \in {"encrypt_query", "decrypt_result"} =>
        /\ client[1].keygens = 0 =>
              (api.err = "KeysNotInitialized" /\ api.val = <<>>)
        /\ client[1].keygens > 0 => api.err # "KeysNotInitialized"

C6_Witness ==
    /\ api.op = "encrypt_query"
    /\ api.args[2] = 0
    /\ client[1].keygens = 0
    /\ api.err = "KeysNotInitialized"

\* ------------------------------------------------------------------------
\* C7
\* ------------------------------------------------------------------------

\* C7: a call of evaluate_polynomial_homomorphic with a sequence whose
\* length differs from n fails with the degree-mismatch error, has done no
\* scheme operation, returns no ciphertext, and leaves dataset, n and
\* coefficients as they were.
C7_DegreeMismatch ==
    [][(/\ api'.op = "evaluate_polynomial_homomorphic"
        /\ Len(api'.args[2]) # n)
       => /\ api'.err = "DegreeMismatch"
          /\ api'.val = <<>>
          /\ api'.ops = 0
          /\ UNCHANGED <<dataset, n, coefficients>>]_vars

C7_Witness ==
    /\ api.op = "evaluate_polynomial_homomorphic"
    /\ n = 0
    /\ Len(api.args[2]) = 1
    /\ api.err = "DegreeMismatch"

\* ------------------------------------------------------------------------
\* C10
\* ------------------------------------------------------------------------

\* the verdicts one run of the protocol can end with when it is the only
\* one using a Server freshly constructed over the stored dataset
SoloVerdicts(ds, q) ==
    LET cs == ComputePolynomialCoefficients(ds)
        g == GenerateKeys(NewClient, 0)
        powers == EncryptQuery(g.self, q, Len(ds)).val[1]
        value == EvaluatePolynomialHomomorphic(cs, Len(ds), g.ret, powers).val[1]
    IN  {CheckMembership(DecryptResult(g.self, b.val[1]).val[1]) :
            b \in BlindAndReturn(value, MaxBlindingFactor)}

\* C10: with several runs interleaved on one Server object, no step taken
\* once the Server is constructed changes its dataset, n or coefficients,
\* no run fails, and every run returns the verdict it gets when run alone.
C10_ConcurrentRunsSafe ==
    /\ [][spc = "ready" => UNCHANGED <<dataset, n, coefficients>>]_vars
    /\ [](\A r \in Runs :
            /\ run[r].pc # "failed"
            /\ run[r].pc = "returned" =>
                  SoloVerdicts(dataset, run[r].client_query) = {run[r].result[1].is_member})

C10_Witness ==
    /\ Cardinality(Runs) >= 2
    /\ run[1].pc = "returned"
    /\ run[1].result[1].is_member
    /\ run[2].pc = "blinded"
    /\ ~CheckMembership(run[2].blinded_result.pt)
    /\ n = 1

\* ------------------------------------------------------------------------
\* C11
\* ------------------------------------------------------------------------

\* the coefficient a_k of x^k, stored at list index n - k (0-based)
CoeffOfPower(cs, deg, k) == cs[deg - k + 1]

\* C11: when encrypted_powers[k-1] encrypts c^k for every k in 1..n, the
\* ciphertext evaluate_polynomial_homomorphic returns is under the Client's
\* key and decrypts to the sum over k = 0..n of a_k * c^k, with a_k read at
\* list index n - k; negative and zero coefficients included, the skipped
\* zero terms changing nothing.
C11_EvaluationIsPolynomialValue ==
    \A r \in Runs :
        (/\ Past(run[r], "evaluated")
         /\ \A k \in 1..n : run[r].encrypted_powers[k].pt = Pow(run[r].client_query, k))
        => /\ run[r].encrypted_polynomial_value.pk = run[r].public_key.id
           /\ run[r].encrypted_polynomial_value.pt = PlainEval(coefficients, run[r].client_query)
           /\ DecryptResult(client[r], run[r].encrypted_polynomial_value)
                = Ok(PlainEval(coefficients, run[r].client_query))

C11_Witness ==
    /\ run[1].pc = "evaluated"
    /\ n = 3
    /\ CoeffOfPower(coefficients, n, 2) = 0
    /\ CoeffOfPower(coefficients, n, 1) < 0
    /\ CoeffOfPower(coefficients, n, 3) = 1
    /\ run[1].client_query = 0 - 2
    /\ run[1].encrypted_polynomial_value.pt = 0 - 6

\* ------------------------------------------------------------------------
\* C12
\* ------------------------------------------------------------------------

\* C12: with keys generated, encrypt_query(c, n) returns exactly n
\* ciphertexts under the Client's public key, the one at position k
\* (1-based) encrypting c^k, for every c (0 and negative included) and every
\* n >= 0 (the empty list for n = 0).
C12_EncryptedPowers ==
    (/\ api.op = "encrypt_query"
     /\ client[1].keygens > 0)
    => /\ api.err = "ok"
       /\ Len(api.val[1]) = api.args[2]
       /\ \A k \in 1..api.args[2] :
             /\ api.val[1][k].pt = Pow(api.args[1], k)
             /\ api.val[1][k].pk = client[1].public_key.id

C12_Witness ==
    /\ api.op = "encrypt_query"
    /\ api.args = <<0 - 1, 2>>
    /\ api.err = "ok"
    /\ api.val[1][1].pt = 0 - 1
    /\ api.val[1][2].pt = 1

\* ------------------------------------------------------------------------
\* C13
\* ------------------------------------------------------------------------

\* C13: blind_and_return fails without returning anything when
\* max_blinding_factor < 1; otherwise the factor r it drew satisfies
\* 1 <= r <= max_blinding_factor and the returned ciphertext encrypts r times
\* the input plaintext, which is zero exactly when the input plaintext is.
C13_BlindingFactorPositive ==
    api.op = "blind_and_return" =>
        /\ api.args[2] < 1 => (api.err # "ok" /\ api.val = <<>>)
        /\ api.args[2] >= 1 =>
              /\ api.err = "ok"
              /\ api.r >= 1
              /\ api.r <= api.args[2]
              /\ api.val[1].pt = api.r * api.args[1].pt
              /\ (api.val[1].pt = 0) <=> (api.args[1].pt = 0)

C13_Witness ==
    /\ api.op = "blind_and_return"
    /\ api.args[2] = 0
    /\ api.err = "EmptyRange"
    /\ api.val = <<>>

\* ------------------------------------------------------------------------
\* C14
\* ------------------------------------------------------------------------

\* what each completed step of a run holds, given the output of the step
\* before it
StepsConsumePredecessor(r) ==
    /\ Past(run[r], "keys_generated") =>
          run[r].public_key = client[r].public_key
    /\ Past(run[r], "query_encrypted") =>
          /\ Len(run[r].encrypted_powers) = n
          /\ Ok(run[r].encrypted_powers) = EncryptQuery(client[r], run[r].client_query, n)
    /\ Past(run[r], "evaluated") =>
          LET res == EvaluatePolynomialHomomorphic(coefficients, n, run[r].public_key,
                                                   run[r].encrypted_powers)
          IN  res.err = "ok" /\ res.val = <<run[r].encrypted_polynomial_value>>
    /\ Past(run[r], "blinded") =>
          /\ run[r].r \in 1..MaxBlindingFactor
          /\ run[r].blinded_result = ScalarMul(run[r].encrypted_polynomial_value, run[r].r)
    /\ Past(run[r], "decrypted") =>
          Ok(run[r].decrypted_result) = DecryptResult(client[r], run[r].blinded_result)
    /\ Past(run[r], "returned") =>
          run[r].result[1].is_member = (run[r].decrypted_result = 0)

\* C14: a run of run_protocol takes its steps one at a time in the order
\* generate keys, encrypt powers (with n the Server's degree), evaluate,
\* blind, decrypt, check: every step moves the run exactly one position on
\* and none fails, so each step happens once and the blinded ciphertext is
\* decrypted once; each completed step holds what its operation yields on
\* the output of the step before.
C14_StepsInOrder ==
    /\ [][\A r \in Runs :
            run'[r].pc # run[r].pc =>
               /\ run'[r].pc # "failed"
               /\ Rank(run'[r].pc) = Rank(run[r].pc) + 1]_vars
    /\ [](\A r \in Runs : run[r].pc # "failed" /\ StepsConsumePredecessor(r))

C14_Witness ==
    /\ run[1].pc = "returned"
    /\ n = 2
    /\ Len(run[1].encrypted_powers) = 2
    /\ run[1].r = 2
    /\ run[1].decrypted_result = 2 * run[1].encrypted_polynomial_value.pt
    /\ run[1].decrypted_result # 0

\* ------------------------------------------------------------------------
\* C15
\* ------------------------------------------------------------------------

ServerStates == <<"Uninitialized", "DatasetLoaded", "EvaluationPending",
                  "Evaluated", "Blinded">>

\* the state of the Server towards run r, read off the construction and the
\* run's position: loaded once constructed, pending from the moment the
\* Client's public key exists for it, evaluated and blinded after the two
\* Server calls
ServerStateRank(r) ==
    IF spc # "ready" THEN 1
    ELSE IF run[r].pc = "start" THEN 2
    ELSE IF run[r].pc \in {"keys_generated", "query_encrypted"} THEN 3
    ELSE IF run[r].pc = "evaluated" THEN 4
    ELSE 5

\* C15: towards each run the Server passes Uninitialized, DatasetLoaded,
\* EvaluationPending, Evaluated, Blinded in that order, a step (one call)
\* moving it by at most one state and never back, and the step that calls
\* evaluate_polynomial_homomorphic always finds a constructed Server whose
\* coefficients are those of its dataset.
C15_ServerStateMachine ==
    [][\A r \in Runs :
          /\ run[r].pc # "failed" /\ run'[r].pc # "failed"
          /\ ServerStateRank(r)' \in {ServerStateRank(r), ServerStateRank(r) + 1}
          /\ (run[r].pc = "query_encrypted" /\ run'[r].pc # "query_encrypted") =>
                /\ ServerStates[ServerStateRank(r)] = "EvaluationPending"
                /\ ServerStates[ServerStateRank(r)'] = "Evaluated"
                /\ spc = "ready"
                /\ coefficients = ComputePolynomialCoefficients(dataset)]_vars

C15_Witness ==
    /\ ServerStates[ServerStateRank(1)] = "Blinded"
    /\ run[1].pc = "blinded"
    /\ n = 3

\* ------------------------------------------------------------------------
\* C16
\* ------------------------------------------------------------------------

\* C16: a call of encrypt_query, decrypt_result or check_membership leaves
\* the Client's public_key and private_key as they were, whether it returns
\* or fails for want of keys; check_membership returns true exactly when
\* its argument is 0, keys or no keys.  Only generate_keys changes them.
C16_OnlyGenerateKeysChangesKeys ==
    [][/\ api'.op \in {"encrypt_query", "decrypt_result", "check_membership"} =>
             /\ client'[1].public_key = client[1].public_key
             /\ client'[1].private_key = client[1].private_key
       /\ api'.op = "check_membership" =>
             /\ api'.err = "ok"
             /\ api'.val = <<api'.args[1] = 0>>
       /\ (client'[1].public_key # client[1].public_key
             \/ client'[1].private_key # client[1].private_key) =>
             api'.op = "generate_keys"]_vars

C16_Witness ==
    /\ api.op = "decrypt_result"
    /\ api.err = "ok"
    /\ client[1].keygens = 2
    /\ client[1].private_key = PrivateKeyOf(<<1, 2>>)
    /\ client[1].public_key = PublicKeyOf(<<1, 2>>)

C16_WitnessNoKeys ==
    /\ api.op = "check_membership"
    /\ api.val = <<TRUE>>
    /\ client[1].public_key = NoKey

\* ------------------------------------------------------------------------
\* C17
\* ------------------------------------------------------------------------

\* C17: of two runs with the same query on the same dataset that drew
\* different blinding factors, a non-member query gives two different
\* decrypted values and two false verdicts, a member query gives 0 twice
\* and two true verdicts; runs with the same query return the same verdict
\* whatever they drew.
C17_VerdictIndependentOfBlinding ==
    \A r1, r2 \in Runs :
        (/\ r1 # r2
         /\ run[r1].client_query = run[r2].client_query
         /\ Past(run[r1], "decrypted")
         /\ Past(run[r2], "decrypted"))
        => LET member == run[r1].client_query \in Elems(server_dataset)
           IN  /\ (~member /\ run[r1].r # run[r2].r) =>
                     run[r1].decrypted_result # run[r2].decrypted_result
               /\ member =>
                     (run[r1].decrypted_result = 0 /\ run[r2].decrypted_result = 0)
               /\ (run[r1].pc = "returned" /\ run[r2].pc = "returned") =>
                     /\ run[r1].result[1].is_member = member
                     /\ run[r2].result[1].is_member = member

C17_Witness ==
    /\ run[1].pc = "returned"
    /\ run[2].pc = "returned"
    /\ run[1].client_query = run[2].client_query
    /\ run[1].client_query \notin Elems(server_dataset)
    /\ n = 1
    /\ run[1].r = 1
    /\ run[2].r = 2
    /\ run[1].decrypted_result # run[2].decrypted_result

\* ------------------------------------------------------------------------
\* C18
\* ------------------------------------------------------------------------

\* C18: the coefficients do not depend on the order in which the distinct
\* elements are processed: when the constructor returns, whatever order
\* list(set(dataset)) produced, the stored coefficients are those every
\* other order of the same elements yields.
C18_OrderIndependent ==
    (spc = "ready" /\ \A r \in Runs : run[r].pc = "start") =>
        \A ds \in Dedup(server_dataset) :
            ComputePolynomialCoefficients(ds) = coefficients

C18_Witness ==
    /\ spc = "ready"
    /\ run[1].pc = "start"
    /\ n = 3
    /\ dataset = <<1, 0 - 1, 0>>
    /\ coefficients = <<1, 0, 0 - 1, 0>>

\* ------------------------------------------------------------------------
\* C19
\* ------------------------------------------------------------------------

\* C19: run_protocol never ends in the keys-not-initialized or the
\* degree-mismatch error, duplicate and empty datasets included: the keys
\* exist before encrypt_query and decrypt_result are called, and the number
\* of encrypted powers is the Server's deduplicated degree n, not the length
\* of the list as passed.
C19_NoProtocolError ==
    \A r \in Runs :
        /\ run[r].pc # "failed"
        /\ run[r].err \notin {"KeysNotInitialized", "DegreeMismatch"}
        /\ Past(run[r], "keys_generated") =>
              /\ client[r].keygens = 1
              /\ client[r].public_key # NoKey
              /\ client[r].private_key # NoKey
        /\ Past(run[r], "query_encrypted") =>
              /\ Len(run[r].encrypted_powers) = n
              /\ Len(run[r].encrypted_powers) = Cardinality(Elems(server_dataset))

C19_Witness ==
    /\ run[1].pc = "returned"
    /\ HasDuplicates(server_dataset)
    /\ Len(server_dataset) = 3
    /\ Len(run[1].encrypted_powers) = 1

C19_WitnessEmpty ==
    /\ run[1].pc = "decrypted"
    /\ server_dataset = <<>>

\* ------------------------------------------------------------------------
\* C20
\* ------------------------------------------------------------------------

\* C20: in the returned record is_member is the returned verdict,
\* actual_membership is `query in dataset`, decrypted_result is the value
\* the verdict was computed from, polynomial_degree is the number of
\* distinct elements, coefficients has polynomial_degree + 1 entries, and
\* dataset_size is the length of the list as passed, so polynomial_degree
\* <= dataset_size with equality exactly when the list has no duplicates.
C20_DiagnosticRecord ==
    \A r \in Runs :
        run[r].pc = "returned" =>
            LET ret == run[r].result[1]
                info == ret.protocol_info
            IN  /\ info.query = run[r].client_query
                /\ info.is_member = ret.is_member
                /\ info.actual_membership = (run[r].client_query \in Elems(server_dataset))
                /\ info.decrypted_result = run[r].decrypted_result
                /\ info.is_member = (info.decrypted_result = 0)
                /\ info.polynomial_degree = Cardinality(Elems(server_dataset))
                /\ Len(info.coefficients) = info.polynomial_degree + 1
                /\ info.coefficients = coefficients
                /\ info.dataset_size = Len(server_dataset)
                /\ info.polynomial_degree <= info.dataset_size
                /\ (info.polynomial_degree = info.dataset_size)
                      <=> ~HasDuplicates(server_dataset)

C20_Witness ==
    /\ run[1].pc = "returned"
    /\ run[1].result[1].protocol_info.dataset_size = 3
    /\ run[1].result[1].protocol_info.polynomial_degree = 2
    /\ run[1].result[1].protocol_info.is_member
    /\ run[1].result[1].protocol_info.actual_membership

====
